---- MODULE Spec2Model ----
(***************************************************************************)
(* Model of static/script.js: the modal helpers (openModal, closeModal,    *)
(* showTerms), the DOMContentLoaded binding of the login / signup buttons  *)
(* and the usage bar (updateUsageBar).                                     *)
(*                                                                         *)
(* The document is the set of element ids it contains (`exists`); an       *)
(* element's inline style is what the script assigns to it.  A JavaScript  *)
(* number is modelled as an extended rational num/den: den > 0 in lowest   *)
(* terms for a finite value, 1/0 for Infinity, -1/0 for -Infinity and 0/0  *)
(* for NaN.  Rounding of the double arithmetic is not modelled.            *)
(***************************************************************************)
EXTENDS Integers, FiniteSets

\* ---------------------------------------------------------------- bounds
MaxCurrent == 2
MaxTotal == 1

\* ------------------------------------------------------- program constants
Cap == 100
SafeLimit == 30
WarnLimit == 70

Safe == "#28a745"
Warning == "#ffc107"
Critical == "#dc3545"

\* ------------------------------------------------------------ the document
Buttons == {"loginBtn", "signupBtn"}
Dialogs == {"loginModal", "signupModal", "termsModal"}
ElementIds == Buttons \cup Dialogs \cup {"usageBar"}

\* ids handed to openModal / closeModal; "missingModal" is in no document
ModalArgs == Dialogs \cup {"missingModal"}

\* arguments handed to updateUsageBar
BoundaryCurrents == {0, 29, 30, 69, 70, 150}
UsageInputs == ((-1 .. MaxCurrent) \X (-1 .. MaxTotal)) \cup (BoundaryCurrents \X {100})

VARIABLES exists, display, usageStyle, onclick, loaded, call, lastToggle, lastUsage

vars == <<exists, display, usageStyle, onclick, loaded, call, lastToggle, lastUsage>>

\* ------------------------------------------------------ JavaScript numbers
Abs(n) == IF n < 0 THEN -n ELSE n

Sign(n) == IF n < 0 THEN -1 ELSE IF n > 0 THEN 1 ELSE 0

RECURSIVE GCD(_, _)
GCD(a, b) == IF b = 0 THEN a ELSE GCD(b, a % b)

Number(n, d) ==
  IF d = 0 THEN [num |-> Sign(n), den |-> 0]
  ELSE LET g == GCD(Abs(n), Abs(d))
       IN  [num |-> (Sign(d) * n) \div g, den |-> Abs(d) \div g]

NaN == [num |-> 0, den |-> 0]

IsNaN(p) == p.den = 0 /\ p.num = 0

\* current / total
Divide(current, total) == Number(current, total)

\* q * k, k a positive integer
Multiply(q, k) == IF q.den = 0 THEN q ELSE Number(q.num * k, q.den)

\* p < k; false when p is NaN
LessThan(p, k) ==
  IF p.den = 0 THEN p.num < 0 ELSE p.num < k * p.den

\* Math.min(p, k); NaN when p is NaN
MathMin(p, k) ==
  IF IsNaN(p) THEN NaN
  ELSE IF LessThan(p, k) THEN p ELSE Number(k, 1)

\* the string p + unit
Concat(p, unit) == [num |-> p.num, den |-> p.den, unit |-> unit]

\* ------------------------------------------------------------------ styles
EmptyWidth == [num |-> 0, den |-> 0, unit |-> ""]

EmptyStyle == [width |-> EmptyWidth, backgroundColor |-> ""]

NoCall == [op |-> "", id |-> "", current |-> 0, total |-> 0, outcome |-> "returned"]

Returned(op, id) == [NoCall EXCEPT !.op = op, !.id = id]

Threw(op, id) == [NoCall EXCEPT !.op = op, !.id = id, !.outcome = "TypeError"]

\* document.getElementById(id) is not null
Found(id) == id \in exists

Init ==
  /\ exists \in SUBSET ElementIds
  /\ display = [e \in exists |-> ""]
  /\ usageStyle = EmptyStyle
  /\ onclick = [b \in Buttons \cap exists |-> ""]
  /\ loaded = FALSE
  /\ call = NoCall
  /\ lastToggle = [e \in exists |-> ""]
  /\ lastUsage = <<>>

\* -------------------------------------------------------------- operations
\* the login button wired to the other dialog
LoginTargetSwapped == "signupModal"

LoginTarget == "loginModal"

SignupTarget == "signupModal"

\* if (btn) btn.onclick = () => openModal(target)
Bind(oc, btn, target) == IF Found(btn) THEN [oc EXCEPT ![btn] = target] ELSE oc

DOMContentLoaded ==
  /\ ~loaded
  /\ loaded' = TRUE
  /\ onclick' = Bind(Bind(onclick, "loginBtn", LoginTarget), "signupBtn", SignupTarget)
  /\ call' = Returned("DOMContentLoaded", "")
  /\ UNCHANGED <<exists, display, usageStyle, lastToggle, lastUsage>>

\* opening or closing one dialog sets every element's display
SetDisplayAll(d, id, value) == [e \in DOMAIN d |-> value]

\* a toggle: assigning the value an element already has flips it
SetDisplayToggle(d, id, value) ==
  [d EXCEPT ![id] = IF d[id] # value THEN value
                     ELSE IF value = "flex" THEN "none" ELSE "flex"]

\* element.style.display = value
SetDisplay(d, id, value) == [d EXCEPT ![id] = value]

\* document.getElementById(id).style.display = value, called as `op` on `arg`
Assign(op, arg, id, value, toggle) ==
  IF Found(id)
  THEN /\ display' = SetDisplay(display, id, value)
       /\ lastToggle' = [lastToggle EXCEPT ![id] = toggle]
       /\ call' = Returned(op, arg)
  ELSE /\ call' = Threw(op, arg)
       /\ UNCHANGED <<display, lastToggle>>

OpenModal(id) ==
  /\ Assign("openModal", id, id, "flex", "open")
  /\ UNCHANGED <<exists, usageStyle, onclick, loaded, lastUsage>>

CloseModal(id) ==
  /\ Assign("closeModal", id, id, "none", "close")
  /\ UNCHANGED <<exists, usageStyle, onclick, loaded, lastUsage>>

\* showTerms opening the login dialog
TermsIdLogin == "loginModal"

TermsId == "termsModal"

ShowTerms ==
  /\ Assign("showTerms", "", TermsId, "flex", "open")
  /\ UNCHANGED <<exists, usageStyle, onclick, loaded, lastUsage>>

\* a click on button btn runs its onclick handler, if one is bound
Click(btn) ==
  /\ Found(btn)
  /\ IF onclick[btn] = ""
     THEN /\ call' = Returned("click", btn)
          /\ UNCHANGED <<display, lastToggle>>
     ELSE Assign("click", btn, onclick[btn], "flex", "open")
  /\ UNCHANGED <<exists, usageStyle, onclick, loaded, lastUsage>>

\* the ratio without the Math.min clamp
PercentageUnclamped(current, total) == Multiply(Divide(current, total), 100)

\* Math.min((current / total) * 100, 100)
Percentage(current, total) == MathMin(Multiply(Divide(current, total), 100), Cap)

Colour(percentage) ==
  IF LessThan(percentage, SafeLimit) THEN Safe
  ELSE IF LessThan(percentage, WarnLimit) THEN Warning
  ELSE Critical

\* a bar that stays critical once it has been critical
SetUsageSticky(style, current, total) ==
  LET percentage == MathMin(Multiply(Divide(current, total), 100), Cap)
  IN  [style EXCEPT !.width = Concat(percentage, "%"),
                    !.backgroundColor = IF style.backgroundColor = Critical THEN Critical
                                        ELSE IF LessThan(percentage, SafeLimit) THEN Safe
                                        ELSE IF LessThan(percentage, WarnLimit) THEN Warning
                                        ELSE Critical]

\* the style of the usage bar after the two assignments of updateUsageBar
SetUsage(style, current, total) ==
  LET percentage == Percentage(current, total)
  IN  [style EXCEPT !.width = Concat(percentage, "%"),
                    !.backgroundColor = Colour(percentage)]

\* updateUsageBar without its early return
UsageGuardDropped == TRUE

UsageGuard == Found("usageBar")

UpdateUsageBar(current, total) ==
  /\ usageStyle' = IF UsageGuard THEN SetUsage(usageStyle, current, total) ELSE usageStyle
  /\ call' = [Returned("updateUsageBar", "") EXCEPT !.current = current, !.total = total]
  /\ lastUsage' = <<current, total>>
  /\ UNCHANGED <<exists, display, onclick, loaded, lastToggle>>

Next ==
  \/ DOMContentLoaded
  \/ \E btn \in Buttons : Click(btn)
  \/ \E id \in ModalArgs : OpenModal(id)
  \/ \E id \in ModalArgs : CloseModal(id)
  \/ ShowTerms
  \/ \E args \in UsageInputs : UpdateUsageBar(args[1], args[2])

Spec == Init /\ [][Next]_vars

\* ------------------------------------------------------------- properties
\* an updateUsageBar call has been made
Updated == lastUsage # <<>>

\* p is a finite number with lo <= p <= hi
Within(p, lo, hi) == p.den > 0 /\ lo * p.den <= p.num /\ p.num <= hi * p.den

\* p >= k; false when p is NaN
AtLeast(p, k) == IF p.den = 0 THEN p.num > 0 ELSE p.num >= k * p.den

\* C1: after updateUsageBar(current, total) with current >= 0 and total >= 0
\* on a page that has the usage bar, the percentage written to the bar's
\* width is a number in [0, 100].
C1_PercentageInRange ==
  (Found("usageBar") /\ Updated /\ lastUsage[1] >= 0 /\ lastUsage[2] >= 0)
    => Within(usageStyle.width, 0, 100)

\* C2: openModal(id) or closeModal(id) with an id that is not in the document
\* raises no error and leaves every element's display unchanged.
C2_MissingIdIsNoOp ==
  [][(call'.op \in {"openModal", "closeModal"} /\ ~Found(call'.id))
       => (call'.outcome = "returned" /\ display' = display)]_vars

\* C3: the colour set on the bar follows the percentage p written to its
\* width: safe exactly when p < 30, warning exactly when 30 <= p < 70,
\* critical exactly when p >= 70.
C3_TierMatchesPercentage ==
  (Found("usageBar") /\ Updated) =>
    LET p == usageStyle.width
        colour == usageStyle.backgroundColor
    IN  /\ colour \in {Safe, Warning, Critical}
        /\ colour = Safe <=> LessThan(p, 30)
        /\ colour = Warning <=> (AtLeast(p, 30) /\ LessThan(p, 70))
        /\ colour = Critical <=> AtLeast(p, 70)

\* C4: with total > 0 and the usage bar present, updateUsageBar(current,
\* total) sets the width to exactly min(current / total * 100, 100) percent.
C4_WidthIsClampedRatio ==
  (Found("usageBar") /\ Updated /\ lastUsage[2] > 0) =>
    LET current == lastUsage[1]
        total == lastUsage[2]
        w == usageStyle.width
    IN  /\ w.unit = "%"
        /\ w.den > 0
        /\ IF current * 100 <= 100 * total
           THEN w.num * total = current * 100 * w.den
           ELSE w.num = 100 * w.den

C4_Witness ==
  /\ Found("usageBar")
  /\ Updated
  /\ lastUsage[2] > 0
  /\ lastUsage[1] > lastUsage[2]
  /\ call.op = "updateUsageBar"
  /\ usageStyle.width = [num |-> 100, den |-> 1, unit |-> "%"]

\* C5: without a usageBar element, updateUsageBar raises no error for any
\* inputs and changes no element's width, colour or display.
C5_NoBarIsNoOp ==
  [][(call'.op = "updateUsageBar" /\ ~Found("usageBar"))
       => /\ call'.outcome = "returned"
          /\ usageStyle' = usageStyle
          /\ display' = display
          /\ onclick' = onclick]_vars

C5_Witness ==
  /\ ~Found("usageBar")
  /\ call.op = "updateUsageBar"
  /\ call.total = 0
  /\ call.outcome = "returned"
  /\ usageStyle = EmptyStyle
  /\ \E e \in exists : display[e] = "flex"

\* the step opens the terms dialog, or throws when the document has none
TermsOpened ==
  /\ IF Found("termsModal")
     THEN /\ display' = [display EXCEPT !["termsModal"] = "flex"]
          /\ call'.outcome = "returned"
     ELSE /\ display' = display
          /\ call'.outcome = "TypeError"
  /\ usageStyle' = usageStyle
  /\ onclick' = onclick
  /\ loaded' = loaded

\* C6: from any view state showTerms() has the same result, and the same
\* error-or-success outcome, as openModal("termsModal").
C6_ShowTermsIsOpenTerms ==
  [][(call'.op = "showTerms" \/ (call'.op = "openModal" /\ call'.id = "termsModal"))
       => TermsOpened]_vars

C6_Witness ==
  /\ call.op = "showTerms"
  /\ call.outcome = "returned"
  /\ Found("termsModal")
  /\ display["termsModal"] = "flex"
  /\ Found("loginModal")
  /\ display["loginModal"] = "none"

\* the handler DOMContentLoaded binds to button b
BoundTarget(b) == IF b = "loginBtn" THEN "loginModal" ELSE "signupModal"

OtherTarget(b) == IF b = "loginBtn" THEN "signupModal" ELSE "loginModal"

\* C7: DOMContentLoaded binds a click handler to each of loginBtn and
\* signupBtn that exists and raises no error when either is absent; after
\* the event a click on loginBtn opens loginModal and leaves signupModal
\* alone, and a click on signupBtn opens signupModal and leaves loginModal
\* alone.
C7_ButtonsOpenTheirDialog ==
  /\ [](loaded => onclick = [b \in Buttons \cap exists |-> BoundTarget(b)])
  /\ [](call.op = "DOMContentLoaded" => call.outcome = "returned")
  /\ [][(call'.op = "click" /\ loaded) =>
          LET b == call'.id
          IN  /\ Found(BoundTarget(b)) => /\ display'[BoundTarget(b)] = "flex"
                                          /\ call'.outcome = "returned"
              /\ Found(OtherTarget(b)) => display'[OtherTarget(b)] = display[OtherTarget(b)]]_vars

C7_Witness ==
  /\ loaded
  /\ ~Found("signupBtn")
  /\ call.op = "click"
  /\ call.id = "loginBtn"
  /\ call.outcome = "returned"
  /\ Found("loginModal")
  /\ display["loginModal"] = "flex"
  /\ Found("signupModal")
  /\ display["signupModal"] = "none"

\* C8: openModal(id) and closeModal(id) change only the display of element
\* id, leaving every other display and the bar's width and colour alone;
\* updateUsageBar changes only the bar's width and colour.
C8_OnlyNamedElementChanges ==
  [][/\ call'.op \in {"openModal", "closeModal"} =>
          /\ usageStyle' = usageStyle
          /\ onclick' = onclick
          /\ \A e \in exists \ {call'.id} : display'[e] = display[e]
     /\ call'.op = "updateUsageBar" =>
          /\ display' = display
          /\ onclick' = onclick]_vars

C8_Witness ==
  /\ call.op = "openModal"
  /\ call.id = "loginModal"
  /\ Found("loginModal")
  /\ display["loginModal"] = "flex"
  /\ Found("signupModal")
  /\ display["signupModal"] = "none"
  /\ Found("usageBar")
  /\ usageStyle.backgroundColor = Warning

C10_DisplayFollowsLastToggle ==
  \A id \in Dialogs \cap exists :
    /\ lastToggle[id] = "open" => display[id] = "flex"
    /\ lastToggle[id] = "close" => display[id] = "none"

C10_Witness ==
  /\ Found("loginModal")
  /\ call.op = "closeModal"
  /\ call.id = "loginModal"
  /\ lastToggle["loginModal"] = "close"
  /\ display["loginModal"] = "none"
  /\ Found("termsModal")
  /\ lastToggle["termsModal"] = "open"
  /\ Updated

====
